---- MODULE Spec2Model ----
(***************************************************************************)
(* Model of skl2onnx/operator_converters/_gp_kernels.py: the translation   *)
(* of Gaussian-process kernel trees into graphs of ONNX operators.         *)
(*                                                                         *)
(* convert_kernel, convert_kernel_diag and _zero_vector_of_size are pure   *)
(* functions from their arguments to an operator graph or to a raised      *)
(* exception.  They are modelled as operators that return a result record  *)
(*   [ok, err, g, emitted]                                                 *)
(* where g is the graph returned, err the class of the exception raised    *)
(* and emitted tells whether an operator node had been constructed when    *)
(* the call ended.  A Python None is the empty sequence, any other value v *)
(* of an optional argument is <<v>>.                                       *)
(***************************************************************************)
EXTENDS Integers, Sequences, FiniteSets, TLC

VARIABLES kernel, X, x_train, output_names, dtype, optim, op_version,
          axis, keepdims, resK, resD, resZ

vars == <<kernel, X, x_train, output_names, dtype, optim, op_version,
          axis, keepdims, resK, resD, resZ>>

(***************************************************************************)
(* Bounds of the model.                                                    *)
(***************************************************************************)
MaxRows == 2
MaxCols == 2
MaxDepth == 2

(***************************************************************************)
(* Python values.                                                          *)
(***************************************************************************)
None == <<>>
Some(v) == <<v>>
IsNone(o) == o = <<>>
Val(o) == o[1]

(***************************************************************************)
(* Numbers held by constants and tensors.  A number is an integer, or a    *)
(* term k(a) that has no integer value (1/2, sqrt(3), pi, exp(-1), ...).   *)
(***************************************************************************)
Num(n) == [k |-> "num", n |-> n, a |-> <<>>]
Sym(f, args) == [k |-> f, n |-> 0, a |-> args]
IsNum(s) == s.k = "num"
IsZero(s) == s.k = "num" /\ s.n = 0
IsOne(s) == s.k = "num" /\ s.n = 1

(***************************************************************************)
(* Exact arithmetic on numbers: the value when it is an integer, the       *)
(* simplified term otherwise.                                              *)
(***************************************************************************)
SAdd(x, y) ==
    IF IsNum(x) /\ IsNum(y) THEN Num(x.n + y.n)
    ELSE IF IsZero(x) THEN y
    ELSE IF IsZero(y) THEN x
    ELSE Sym("add", <<x, y>>)

SMul(x, y) ==
    IF IsNum(x) /\ IsNum(y) THEN Num(x.n * y.n)
    ELSE IF IsZero(x) \/ IsZero(y) THEN Num(0)
    ELSE IF IsOne(x) THEN y
    ELSE IF IsOne(y) THEN x
    ELSE Sym("mul", <<x, y>>)

SNeg(x) == IF IsNum(x) THEN Num(0 - x.n) ELSE Sym("neg", <<x>>)

SDiv(x, y) ==
    IF IsZero(y) THEN Sym("div", <<x, y>>)
    ELSE IF IsZero(x) THEN Num(0)
    ELSE IF IsOne(y) THEN x
    ELSE IF IsNum(x) /\ IsNum(y) /\ x.n % (IF y.n < 0 THEN 0 - y.n ELSE y.n) = 0
         THEN Num(IF y.n < 0 THEN 0 - (x.n \div (0 - y.n)) ELSE x.n \div y.n)
    ELSE Sym("div", <<x, y>>)

SExp(x) == IF IsZero(x) THEN Num(1) ELSE Sym("exp", <<x>>)

SSin(x) == IF IsZero(x) THEN Num(0) ELSE Sym("sin", <<x>>)

RECURSIVE IntPow(_, _)
IntPow(b, e) == IF e = 0 THEN 1 ELSE b * IntPow(b, e - 1)

SPow(x, y) ==
    IF IsNum(y) /\ y.n = 0 THEN Num(1)
    ELSE IF IsOne(x) THEN Num(1)
    ELSE IF IsNum(x) /\ IsNum(y) /\ y.n > 0 THEN Num(IntPow(x.n, y.n))
    ELSE Sym("pow", <<x, y>>)

SSqrt(x) ==
    IF IsNum(x) /\ x.n >= 0 /\ \E r \in 0..x.n : r * r = x.n
    THEN Num(CHOOSE r \in 0..x.n : r * r = x.n)
    ELSE Sym("sqrt", <<x>>)

(***************************************************************************)
(* The cast numpy applies when it stores a number in an array of a given   *)
(* dtype: an integer dtype truncates towards zero, the floating dtypes and *)
(* the object dtype keep the number.                                       *)
(***************************************************************************)
IntDtypes == {"int64"}

RECURSIVE Trunc(_)
Trunc(x) ==
    IF IsNum(x) THEN x
    ELSE IF x.k = "neg" THEN SNeg(Trunc(x.a[1]))
    ELSE IF x.k = "pi" THEN Num(3)
    ELSE IF x.k = "div" /\ IsNum(x.a[1]) /\ IsNum(x.a[2]) /\ x.a[2].n # 0
    THEN LET a == x.a[1].n
             b == x.a[2].n
             q == (IF a < 0 THEN 0 - a ELSE a) \div (IF b < 0 THEN 0 - b ELSE b)
         IN Num(IF (a < 0) = (b < 0) THEN q ELSE 0 - q)
    ELSE IF x.k = "sqrt" /\ IsNum(x.a[1]) /\ x.a[1].n >= 0
    THEN Num(CHOOSE r \in 0..x.a[1].n : r * r <= x.a[1].n /\ (r + 1) * (r + 1) > x.a[1].n)
    ELSE Sym("trunc", <<x>>)

Cast(x, dt) == IF dt \in IntDtypes THEN Trunc(x) ELSE x

(***************************************************************************)
(* Operator graphs.  Every node is a record of the same shape: an operator *)
(* node carries its inputs, its attribute, its output names and its opset; *)
(* a constant carries its dtype and its numbers; an input names a tensor.  *)
(***************************************************************************)
Op(op, ins, attr, names, ver) ==
    [op |-> op, ins |-> ins, attr |-> attr, names |-> names, ver |-> ver,
     dtype |-> "", val |-> <<>>]

OpT(op, ins, attr, names, ver, dt) ==
    [op |-> op, ins |-> ins, attr |-> attr, names |-> names, ver |-> ver,
     dtype |-> dt, val |-> <<>>]

Const(dt, vals) ==
    [op |-> "Const", ins |-> <<>>, attr |-> "", names |-> None, ver |-> None,
     dtype |-> dt, val |-> [i \in DOMAIN vals |-> Cast(vals[i], dt)]]

Input(t) ==
    [op |-> "Input", ins |-> <<>>, attr |-> t.name, names |-> None, ver |-> None,
     dtype |-> "", val |-> <<>>]

NoGraph == Op("None", <<>>, "", None, None)

Ok(g) == [ok |-> TRUE, err |-> "", g |-> g, emitted |-> TRUE]
Raise(err, emitted) == [ok |-> FALSE, err |-> err, g |-> NoGraph, emitted |-> emitted]
Pending == [ok |-> FALSE, err |-> "pending", g |-> NoGraph, emitted |-> FALSE]

(***************************************************************************)
(* Kernel objects.  cls is type(kernel); base is the class of the file's   *)
(* import list that the kernel is an instance of (cls itself, or the       *)
(* supported class a user class derives from, or "Kernel").  A parameter   *)
(* is a Python number or a numpy array of numbers; err names the           *)
(* exception the host arithmetic raised while computing it, if any.        *)
(***************************************************************************)
Scalar(n) == [isarray |-> FALSE, v |-> <<Num(n)>>, err |-> ""]
Array(ns) == [isarray |-> TRUE, v |-> [i \in DOMAIN ns |-> Num(ns[i])], err |-> ""]

Sum(a, b) == [cls |-> "Sum", base |-> "Sum", k1 |-> a, k2 |-> b]
Product(a, b) == [cls |-> "Product", base |-> "Product", k1 |-> a, k2 |-> b]
ConstantKernel(c) ==
    [cls |-> "ConstantKernel", base |-> "ConstantKernel", constant_value |-> c]
RBF(l) == [cls |-> "RBF", base |-> "RBF", length_scale |-> l]
Matern(l, nu) == [cls |-> "Matern", base |-> "Matern", length_scale |-> l, nu |-> nu]
ExpSineSquared(l, p) ==
    [cls |-> "ExpSineSquared", base |-> "ExpSineSquared", length_scale |-> l,
     periodicity |-> p]
RationalQuadratic(l, a) ==
    [cls |-> "RationalQuadratic", base |-> "RationalQuadratic", length_scale |-> l,
     alpha |-> a]
DotProduct(s) == [cls |-> "DotProduct", base |-> "DotProduct", sigma_0 |-> s]
PairwiseKernel(m) == [cls |-> "PairwiseKernel", base |-> "PairwiseKernel", metric |-> m]
WhiteKernel(nl) == [cls |-> "WhiteKernel", base |-> "WhiteKernel", noise_level |-> nl]
Subclass(name, k) == [k EXCEPT !.cls = name]
OtherKernel(name) == [cls |-> name, base |-> "Kernel"]

(* The dispatch of a kernel by isinstance instead of by its exact type. *)
TypeIs_isinstance(k, c) == k.base = c

TypeIs(k, c) == k.cls = c

(* isinstance(kernel, c): Matern is declared in sklearn as a subclass of RBF. *)
IsInstance(k, c) == k.base = c \/ (c = "RBF" /\ k.base = "Matern")

(***************************************************************************)
(* Arithmetic of the host language on parameters.                          *)
(***************************************************************************)
PSquare(p) == [p EXCEPT !.v = [i \in DOMAIN p.v |-> SMul(p.v[i], p.v[i])]]
PNeg(p) == [p EXCEPT !.v = [i \in DOMAIN p.v |-> SNeg(p.v[i])]]
PMul(p, q) ==
    IF p.err # "" THEN p
    ELSE IF q.err # "" THEN q
    ELSE IF Len(p.v) = Len(q.v)
    THEN [isarray |-> p.isarray \/ q.isarray,
          v |-> [i \in DOMAIN p.v |-> SMul(p.v[i], q.v[i])], err |-> ""]
    ELSE IF Len(q.v) = 1
    THEN [isarray |-> TRUE, v |-> [i \in DOMAIN p.v |-> SMul(p.v[i], q.v[1])],
          err |-> ""]
    ELSE IF Len(p.v) = 1
    THEN [isarray |-> TRUE, v |-> [i \in DOMAIN q.v |-> SMul(p.v[1], q.v[i])],
          err |-> ""]
    ELSE [isarray |-> TRUE, v |-> <<>>, err |-> "ValueError"]

Pi == [isarray |-> FALSE, v |-> <<Sym("pi", <<>>)>>, err |-> ""]
Half == SDiv(Num(1), Num(2))
Sqrt3 == SSqrt(Num(3))
Sqrt5 == SSqrt(Num(5))

(***************************************************************************)
(* np.array([v], dtype=dtype) and array.astype(dtype).                     *)
(***************************************************************************)
NpArray(p, dt) == Const(dt, p.v)

(***************************************************************************)
(* py_make_float_array, lines 122-134.  Parameters are numbers or arrays,  *)
(* so the check of cst's type (line 130) never raises.                     *)
(***************************************************************************)
FloatDtypes == {"float32", "float64"}

py_make_float_array(cst, dt, as_tensor) ==
    IF dt \notin FloatDtypes THEN Raise("TypeError", FALSE)
    ELSE LET res == NpArray(cst, dt)
         IN [ok |-> TRUE, err |-> "", emitted |-> FALSE,
             g |-> IF as_tensor THEN [res EXCEPT !.attr = "TensorProto"] ELSE res]

(* The guard left out: a missing op_version goes unnoticed. *)
op_version_missing_never(ver) == FALSE

(***************************************************************************)
(* The guard "if op_version is None: raise RuntimeError" that opens        *)
(* convert_kernel_diag, convert_kernel and _zero_vector_of_size.           *)
(***************************************************************************)
op_version_missing(ver) == IsNone(ver)

(* _zero_vector_of_size reading the column count whatever the axis. *)
zero_vector_of_size_cols(x, names, ax, kd, dt, ver) ==
    IF IsNone(ver) THEN Raise("RuntimeError", FALSE)
    ELSE IF IsNone(kd) THEN Raise("ValueError", FALSE)
    ELSE
      LET shape == Op("Shape", <<Input(x)>>, "", None, ver)
          dim == Op("Gather", <<shape, Const("int64", <<Num(1)>>)>>, "", None, ver)
          new_shape ==
              IF Val(kd) # 0
              THEN Op("Concat", <<dim, Const("int64", <<Num(1)>>)>>, "axis=0", None, ver)
              ELSE dim
      IN Ok(Op("ConstantOfShape", <<new_shape, Const(dt, <<Num(0)>>)>>, "value",
               names, ver))

(* _zero_vector_of_size dropping the dimension of size 1 whatever keepdims. *)
zero_vector_of_size_flat(x, names, ax, kd, dt, ver) ==
    IF IsNone(ver) THEN Raise("RuntimeError", FALSE)
    ELSE IF IsNone(kd) THEN Raise("ValueError", FALSE)
    ELSE
      LET shape == Op("Shape", <<Input(x)>>, "", None, ver)
          dim == Op("Gather", <<shape, Const("int64", <<Num(IF ax = 0 THEN 0 ELSE 1)>>)>>,
                    "", None, ver)
      IN Ok(Op("ConstantOfShape", <<dim, Const(dt, <<Num(0)>>)>>, "value", names, ver))

(***************************************************************************)
(* _zero_vector_of_size, lines 538-571.  The value attribute of            *)
(* ConstantOfShape is a tensor: it is kept as the node's second input.     *)
(***************************************************************************)
Int64(n) == Const("int64", <<Num(n)>>)

zero_vector_of_size(x, names, ax, kd, dt, ver) ==
    IF op_version_missing(ver) THEN Raise("RuntimeError", FALSE)
    ELSE IF IsNone(kd) THEN Raise("ValueError", FALSE)
    ELSE
      LET shape == Op("Shape", <<Input(x)>>, "", None, ver)
          dim == IF ax = 0
                 THEN Op("Gather", <<shape, Int64(0)>>, "", None, ver)
                 ELSE Op("Gather", <<shape, Int64(1)>>, "", None, ver)
          new_shape ==
              IF ax = 0
              THEN IF Val(kd) # 0
                   THEN Op("Concat", <<dim, Int64(1)>>, "axis=0", None, ver)
                   ELSE dim
              ELSE IF Val(kd) # 0
                   THEN Op("Concat", <<Int64(1), dim>>, "axis=0", None, ver)
                   ELSE dim
      IN Ok(Op("ConstantOfShape", <<new_shape, Const(dt, <<Num(0)>>)>>, "value",
               names, ver))

(* The two sub-results combined by Add whatever the kernel. *)
Apply2_AlwaysAdd(op, r1, r2, names, ver) ==
    IF ~r1.ok THEN Raise(r1.err, r1.emitted)
    ELSE IF ~r2.ok THEN Raise(r2.err, TRUE)
    ELSE Ok(Op("Add", <<r1.g, r2.g>>, "", names, ver))

(***************************************************************************)
(* An operator node built from two sub-results, as Python evaluates the    *)
(* call: the first argument, then the second, then the constructor.        *)
(***************************************************************************)
Apply2(op, r1, r2, names, ver) ==
    IF ~r1.ok THEN Raise(r1.err, r1.emitted)
    ELSE IF ~r2.ok THEN Raise(r2.err, TRUE)
    ELSE Ok(Op(op, <<r1.g, r2.g>>, "", names, ver))

(***************************************************************************)
(* convert_kernel_diag, lines 46-119.                                      *)
(***************************************************************************)
DiagOnes == {"RBF", "ExpSineSquared", "RationalQuadratic", "Matern"}

RECURSIVE convert_kernel_diag(_, _, _, _, _, _)
convert_kernel_diag(k, x, names, dt, opt, ver) ==
    IF op_version_missing(ver) THEN Raise("RuntimeError", FALSE)
    ELSE IF TypeIs(k, "Sum")
    THEN Apply2("Add", convert_kernel_diag(k.k1, x, None, dt, opt, ver),
                convert_kernel_diag(k.k2, x, None, dt, opt, ver), names, ver)
    ELSE IF TypeIs(k, "Product")
    THEN Apply2("Mul", convert_kernel_diag(k.k1, x, None, dt, opt, ver),
                convert_kernel_diag(k.k2, x, None, dt, opt, ver), names, ver)
    ELSE IF TypeIs(k, "ConstantKernel")
    THEN LET onnx_zeros == zero_vector_of_size(x, None, 0, Some(0), dt, ver)
         IN Ok(Op("Add", <<onnx_zeros.g, NpArray(k.constant_value, dt)>>, "",
                  names, ver))
    ELSE IF k.cls \in DiagOnes
    THEN LET onnx_zeros == zero_vector_of_size(x, None, 0, Some(0), dt, ver)
         IN IF IsInstance(k, "RBF")
            THEN Ok(Op("Add", <<onnx_zeros.g, NpArray(Scalar(1), dt)>>, "",
                       names, ver))
            ELSE Ok(Op("Add", <<onnx_zeros.g, NpArray(Scalar(1), dt)>>, "",
                       names, ver))
    ELSE IF TypeIs(k, "DotProduct")
    THEN LET t_sigma_0 == py_make_float_array(PSquare(k.sigma_0), dt, FALSE)
         IN IF ~t_sigma_0.ok THEN t_sigma_0
            ELSE Ok(Op("Squeeze",
                       <<Op("Add",
                            <<Op("ReduceSumSquare", <<Input(x)>>, "axes=1", None, ver),
                              t_sigma_0.g>>, "", None, ver)>>,
                       "axes=1", names, ver))
    ELSE Raise("RuntimeError", FALSE)

(***************************************************************************)
(* The distance builders of skl2onnx.algebra: onnx_cdist and               *)
(* onnx_squareform_pdist compose the distance from elementary operators,   *)
(* OnnxCDist is the fused operator.  Each is one node here, with its       *)
(* metric as attribute.                                                    *)
(***************************************************************************)
onnx_cdist(a, b, metric, dt, ver) == OpT("onnx_cdist", <<a, b>>, metric, None, ver, dt)
onnx_squareform_pdist(a, metric, dt, ver) ==
    OpT("onnx_squareform_pdist", <<a>>, metric, None, ver, dt)
OnnxCDist(a, b, metric, ver) == Op("CDist", <<a, b>>, metric, None, ver)

(***************************************************************************)
(* A numpy array computed by the host from a compile-time array t:         *)
(* t.T.astype(dtype), or the transposed row-normalised array.              *)
(***************************************************************************)
HostArray(fn, t, dt) == OpT("HostArray", <<Input(t)>>, fn, None, None, dt)

(***************************************************************************)
(* _convert_exp_sine_squared, lines 137-180.                               *)
(***************************************************************************)
convert_exp_sine_squared(x, y, length_scale, periodicity, pi, dt, opt, ver, names) ==
    IF ~IsNone(opt) /\ Val(opt) # "cdist" THEN Raise("ValueError", FALSE)
    ELSE
      LET dists == IF IsNone(opt)
                   THEN onnx_cdist(Input(x), Input(y), "euclidean", dt, ver)
                   ELSE OnnxCDist(Input(x), Input(y), "euclidean", ver)
          t_pi == py_make_float_array(pi, dt, FALSE)
          t_periodicity == py_make_float_array(periodicity, dt, FALSE)
          t_2 == py_make_float_array(Scalar(2), dt, FALSE)
          t__2 == py_make_float_array(Scalar(-2), dt, FALSE)
          t_length_scale == py_make_float_array(length_scale, dt, FALSE)
      IN IF ~t_pi.ok THEN Raise(t_pi.err, TRUE)
         ELSE
           LET arg == Op("Mul", <<Op("Div", <<dists, t_periodicity.g>>, "", None, ver),
                                  t_pi.g>>, "", None, ver)
               sin_of_arg == Op("Sin", <<arg>>, "", None, ver)
               K == Op("Exp",
                       <<Op("Mul",
                            <<Op("Pow",
                                 <<Op("Div", <<sin_of_arg, t_length_scale.g>>, "",
                                      None, ver),
                                   t_2.g>>, "", None, ver),
                              t__2.g>>, "", None, ver)>>, "", None, ver)
           IN Ok(Op("Identity", <<K>>, "", names, ver))

(***************************************************************************)
(* A dot-product compiler that forwards the keyword arguments to the inner *)
(* Add node as well as to the final Identity.                              *)
(***************************************************************************)
convert_dot_product_named_inner(x, y, sigma_0, dt, ver, names) ==
    LET t_sigma_0 == py_make_float_array(PSquare(sigma_0), dt, FALSE)
    IN IF ~t_sigma_0.ok THEN t_sigma_0
       ELSE
         LET tr == IF y.isarray THEN HostArray("T", y, dt)
                   ELSE Op("Transpose", <<Input(y)>>, "perm=1,0", None, ver)
             matm == Op("MatMul", <<Input(x), tr>>, "", None, ver)
             K == Op("Add", <<matm, t_sigma_0.g>>, "", names, ver)
         IN Ok(Op("Identity", <<K>>, "", names, ver))

(***************************************************************************)
(* _convert_dot_product, lines 183-196.                                    *)
(***************************************************************************)
convert_dot_product(x, y, sigma_0, dt, ver, names) ==
    LET t_sigma_0 == py_make_float_array(PSquare(sigma_0), dt, FALSE)
    IN IF ~t_sigma_0.ok THEN t_sigma_0
       ELSE
         LET tr == IF y.isarray THEN HostArray("T", y, dt)
                   ELSE Op("Transpose", <<Input(y)>>, "perm=1,0", None, ver)
             matm == Op("MatMul", <<Input(x), tr>>, "", None, ver)
             K == Op("Add", <<matm, t_sigma_0.g>>, "", None, ver)
         IN Ok(Op("Identity", <<K>>, "", names, ver))

(***************************************************************************)
(* _convert_rational_quadratic, lines 199-221.                             *)
(***************************************************************************)
convert_rational_quadratic(x, y, length_scale, alpha, dt, opt, ver, names) ==
    IF ~IsNone(opt) /\ Val(opt) # "cdist" THEN Raise("ValueError", FALSE)
    ELSE
      LET dists == IF IsNone(opt)
                   THEN onnx_cdist(Input(x), Input(y), "sqeuclidean", dt, ver)
                   ELSE OnnxCDist(Input(x), Input(y), "sqeuclidean", ver)
          cst == PMul(PMul(PSquare(length_scale), alpha), Scalar(2))
          t_cst == py_make_float_array(cst, dt, FALSE)
          t_one == py_make_float_array(Scalar(1), dt, FALSE)
          t_alpha == py_make_float_array(PNeg(alpha), dt, FALSE)
      IN IF cst.err # "" THEN Raise(cst.err, TRUE)
         ELSE IF ~t_cst.ok THEN Raise(t_cst.err, TRUE)
         ELSE
           LET tmp == Op("Div", <<dists, t_cst.g>>, "", None, ver)
               base == Op("Add", <<tmp, t_one.g>>, "", None, ver)
               K == Op("Pow", <<base, t_alpha.g>>, "", None, ver)
           IN Ok(Op("Identity", <<K>>, "", names, ver))

(***************************************************************************)
(* _convert_pairwise_kernel, lines 224-262.  For a numpy array Y, line 250 *)
(* sums Y**2 along axis 1: on an array of fewer than two dimensions numpy  *)
(* raises AxisError, before any operator is built.                         *)
(***************************************************************************)
convert_pairwise_kernel(x, y, metric, dt, ver, opt, names) ==
    IF metric = "cosine"
    THEN
      IF y.isarray /\ Len(y.shape) < 2 THEN Raise("AxisError", FALSE)
      ELSE
      LET norm_try ==
            IF y.isarray THEN HostArray("rownormT", y, dt)
            ELSE LET ny == OpT("ReduceL2", <<Input(y)>>, "axes=1", None, ver, dt)
                     norm_y == Op("Div", <<Input(y), ny>>, "", None, ver)
                 IN Op("Transpose", <<norm_y>>, "perm=1,0", None, ver)
          nx == OpT("ReduceL2", <<Input(x)>>, "axes=1", None, ver, dt)
          norm_x == Op("Div", <<Input(x), nx>>, "", None, ver)
          K == Op("MatMul", <<norm_x, norm_try>>, "", None, ver)
      IN Ok(Op("Identity", <<K>>, "", names, ver))
    ELSE Raise("NotImplementedError", FALSE)

(***************************************************************************)
(* convert_kernel, lines 265-535.  Line 448 reads x_train.shape: an        *)
(* x_train that is a graph input and not a numpy array has no such         *)
(* attribute and the read raises AttributeError.                           *)
(***************************************************************************)
MetricOf(k) == IF TypeIs(k, "RBF") THEN "sqeuclidean" ELSE "euclidean"

RECURSIVE convert_kernel(_, _, _, _, _, _, _)
convert_kernel(k, x, names, xt, dt, opt, ver) ==
    IF op_version_missing(ver) THEN Raise("RuntimeError", FALSE)
    ELSE IF TypeIs(k, "Sum") \/ TypeIs(k, "Product")
    THEN Apply2(IF TypeIs(k, "Sum") THEN "Add" ELSE "Mul",
                convert_kernel(k.k1, x, None, xt, dt, opt, ver),
                convert_kernel(k.k2, x, None, xt, dt, opt, ver), names, ver)
    ELSE IF TypeIs(k, "ConstantKernel")
    THEN
      LET onnx_zeros_x == zero_vector_of_size(x, None, 0, Some(1), dt, ver).g
          onnx_zeros_y == IF IsNone(xt) THEN onnx_zeros_x
                          ELSE zero_vector_of_size(Val(xt), None, 0, Some(1), dt, ver).g
          tr == Op("Transpose", <<onnx_zeros_y>>, "perm=1,0", None, ver)
          mat == Op("MatMul", <<onnx_zeros_x, tr>>, "", None, ver)
      IN Ok(Op("Add", <<mat, NpArray(k.constant_value, dt)>>, "", names, ver))
    ELSE IF TypeIs(k, "RBF") \/ TypeIs(k, "Matern")
    THEN
      LET const == IF k.length_scale.isarray /\ Len(k.length_scale.v) > 0
                   THEN NpArray(k.length_scale, dt)
                   ELSE NpArray(k.length_scale, dt)
          X_scaled == Op("Div", <<Input(x), const>>, "", None, ver)
          x_train_scaled == Op("Div", <<Input(Val(xt)), const>>, "", None, ver)
          dist == IF IsNone(xt)
                  THEN onnx_squareform_pdist(X_scaled, MetricOf(k), dt, ver)
                  ELSE IF IsNone(opt)
                  THEN onnx_cdist(X_scaled, x_train_scaled, MetricOf(k), dt, ver)
                  ELSE OnnxCDist(X_scaled, x_train_scaled, "sqeuclidean", ver)
          Neg(g) == Op("Neg", <<g>>, "", None, ver)
      IN IF ~IsNone(xt) /\ ~IsNone(opt) /\ Val(opt) # "cdist"
         THEN Raise("ValueError", TRUE)
         ELSE IF TypeIs(k, "RBF")
         THEN LET K == Op("Mul", <<dist, Const(dt, <<Half>>)>>, "", None, ver)
              IN Ok(Op("Exp", <<Neg(K)>>, "", names, ver))
         ELSE IF k.nu = "0.5"
         THEN Ok(Op("Exp", <<Neg(dist)>>, "", names, ver))
         ELSE IF k.nu = "1.5"
         THEN LET K == Op("Mul", <<dist, Const(dt, <<Sqrt3>>)>>, "", None, ver)
                  exp_k == Op("Exp", <<Neg(K)>>, "", None, ver)
                  k_1 == Op("Add", <<K, NpArray(Scalar(1), dt)>>, "", None, ver)
              IN Ok(Op("Mul", <<k_1, exp_k>>, "", names, ver))
         ELSE IF k.nu = "2.5"
         THEN LET K == Op("Mul", <<dist, Const(dt, <<Sqrt5>>)>>, "", None, ver)
                  exp_k == Op("Exp", <<Neg(K)>>, "", None, ver)
                  k_12 == Op("Add",
                             <<Op("Add", <<K, NpArray(Scalar(1), "object")>>, "",
                                  None, ver),
                               Op("Div", <<Op("Mul", <<K, K>>, "", None, ver),
                                           NpArray(Scalar(3), dt)>>, "", None, ver)>>,
                             "", None, ver)
              IN Ok(Op("Mul", <<k_12, exp_k>>, "", names, ver))
         ELSE IF k.nu = "inf"
         THEN Ok(Op("Exp",
                    <<Neg(Op("Div", <<Op("Mul", <<dist, dist>>, "", None, ver),
                                      NpArray(Scalar(2), dt)>>, "", None, ver))>>,
                    "", names, ver))
         ELSE Raise("RuntimeError", TRUE)
    ELSE IF TypeIs(k, "ExpSineSquared")
    THEN IF k.length_scale.isarray THEN Raise("NotImplementedError", FALSE)
         ELSE convert_exp_sine_squared(x, IF IsNone(xt) THEN x ELSE Val(xt),
                                       k.length_scale, k.periodicity, Pi, dt, opt,
                                       ver, names)
    ELSE IF TypeIs(k, "DotProduct")
    THEN IF k.sigma_0.isarray THEN Raise("NotImplementedError", FALSE)
         ELSE IF IsNone(xt)
         THEN convert_dot_product(x, x, k.sigma_0, dt, ver, names)
         ELSE IF ~Val(xt).isarray THEN Raise("AttributeError", FALSE)
         ELSE IF Len(Val(xt).shape) # 2 THEN Raise("NotImplementedError", FALSE)
         ELSE convert_dot_product(x, Val(xt), k.sigma_0, dt, ver, names)
    ELSE IF TypeIs(k, "RationalQuadratic")
    THEN IF IsNone(xt)
         THEN convert_rational_quadratic(x, x, k.length_scale, k.alpha, dt, opt,
                                         ver, names)
         ELSE convert_rational_quadratic(x, Val(xt), k.length_scale, k.alpha, dt,
                                         opt, ver, names)
    ELSE IF TypeIs(k, "PairwiseKernel")
    THEN IF IsNone(xt)
         THEN convert_pairwise_kernel(x, x, k.metric, dt, ver, opt, names)
         ELSE convert_pairwise_kernel(x, Val(xt), k.metric, dt, ver, opt, names)
    ELSE IF TypeIs(k, "WhiteKernel")
    THEN
      LET onnx_zeros_x == zero_vector_of_size(x, None, 0, Some(1), dt, ver).g
          onnx_zeros_y == IF IsNone(xt) THEN onnx_zeros_x
                          ELSE zero_vector_of_size(Val(xt), None, 0, Some(1), dt, ver).g
          tr == Op("Transpose", <<onnx_zeros_y>>, "perm=1,0", None, ver)
          mat == Op("MatMul", <<onnx_zeros_x, tr>>, "", None, ver)
      IN IF ~IsNone(xt) THEN Ok(Op("Identity", <<mat>>, "", names, ver))
         ELSE Ok(Op("Mul",
                    <<Op("EyeLike", <<mat>>, "", None, ver),
                      Op("Identity", <<NpArray(k.noise_level, dt)>>, "", None, ver)>>,
                    "", names, ver))
    ELSE Raise("RuntimeError", FALSE)

(***************************************************************************)
(* What the operators of a graph compute (ONNX operator semantics, on      *)
(* tensors of rank 1 and 2).  A tensor value is its shape and its numbers  *)
(* in row-major order.                                                     *)
(***************************************************************************)
T(shape, d) == [shape |-> shape, d |-> d]
Max(a, b) == IF a >= b THEN a ELSE b
Rows2(t) == IF Len(t.shape) = 2 THEN t.shape[1] ELSE 1
Cols2(t) == IF Len(t.shape) = 2 THEN t.shape[2] ELSE t.shape[1]
At2(t, i, j) ==
    t.d[((IF Rows2(t) = 1 THEN 1 ELSE i) - 1) * Cols2(t)
        + (IF Cols2(t) = 1 THEN 1 ELSE j)]

SSub(x, y) == IF x = y THEN Num(0) ELSE SAdd(x, SNeg(y))

RECURSIVE SumUpTo(_, _)
SumUpTo(f, n) == IF n = 0 THEN Num(0) ELSE SAdd(SumUpTo(f, n - 1), f[n])

SBinary(f, x, y) ==
    CASE f = "Add" -> SAdd(x, y)
      [] f = "Mul" -> SMul(x, y)
      [] f = "Div" -> SDiv(x, y)
      [] f = "Pow" -> SPow(x, y)

SUnary(f, x) ==
    CASE f = "Neg" -> SNeg(x)
      [] f = "Exp" -> SExp(x)
      [] f = "Sin" -> SSin(x)
      [] f = "Sqrt" -> SSqrt(x)

Broadcast2(f, a, b) ==
    LET r == Max(Rows2(a), Rows2(b))
        c == Max(Cols2(a), Cols2(b))
    IN T(IF Max(Len(a.shape), Len(b.shape)) = 2 THEN <<r, c>> ELSE <<c>>,
         [p \in 1..(r * c) |->
            SBinary(f, At2(a, ((p - 1) \div c) + 1, ((p - 1) % c) + 1),
                       At2(b, ((p - 1) \div c) + 1, ((p - 1) % c) + 1))])

Map1(f, t) == T(t.shape, [p \in DOMAIN t.d |-> SUnary(f, t.d[p])])

TTranspose(t) ==
    LET r == t.shape[1]
        c == t.shape[2]
    IN T(<<c, r>>, [p \in 1..(r * c) |-> At2(t, ((p - 1) % r) + 1, ((p - 1) \div r) + 1)])

TMatMul(a, b) ==
    LET r == a.shape[1]
        n == a.shape[2]
        c == b.shape[2]
    IN T(<<r, c>>,
         [p \in 1..(r * c) |->
            SumUpTo([q \in 1..n |-> SMul(At2(a, ((p - 1) \div c) + 1, q),
                                         At2(b, q, ((p - 1) % c) + 1))], n)])

TRowSumSquare(t) ==
    LET r == t.shape[1]
        c == t.shape[2]
    IN T(<<r, 1>>,
         [i \in 1..r |-> SumUpTo([q \in 1..c |-> SMul(At2(t, i, q), At2(t, i, q))], c)])

TPairwise(a, b, metric) ==
    LET r == a.shape[1]
        c == b.shape[1]
        n == a.shape[2]
        Sq(i, j) == SumUpTo([q \in 1..n |->
                       LET d == SSub(At2(a, i, q), At2(b, j, q)) IN SMul(d, d)], n)
    IN T(<<r, c>>,
         [p \in 1..(r * c) |->
            LET s == Sq(((p - 1) \div c) + 1, ((p - 1) % c) + 1)
            IN IF metric = "sqeuclidean" THEN s ELSE SSqrt(s)])

TEyeLike(t) ==
    LET r == t.shape[1]
        c == t.shape[2]
    IN T(<<r, c>>,
         [p \in 1..(r * c) |-> IF (p - 1) \div c = (p - 1) % c THEN Num(1) ELSE Num(0)])

RECURSIVE ProdUpTo(_, _)
ProdUpTo(f, n) == IF n = 0 THEN 1 ELSE ProdUpTo(f, n - 1) * f[n].n

TFill(shape, value) ==
    T([i \in DOMAIN shape.d |-> shape.d[i].n],
      [p \in 1..ProdUpTo(shape.d, Len(shape.d)) |-> value.d[1]])

TensorOf(t) == T(t.shape, [i \in DOMAIN t.data |-> Num(t.data[i])])

RECURSIVE Eval(_, _)
Eval(g, env) ==
    LET in1 == Eval(g.ins[1], env)
        in2 == Eval(g.ins[2], env)
    IN CASE g.op = "Input" -> env[g.attr]
         [] g.op = "Const" -> T(<<Len(g.val)>>, g.val)
         [] g.op = "HostArray" ->
              IF g.attr = "T" THEN TTranspose(in1)
              ELSE TTranspose(Broadcast2("Div", in1, Map1("Sqrt", TRowSumSquare(in1))))
         [] g.op = "Shape" ->
              T(<<Len(in1.shape)>>, [i \in DOMAIN in1.shape |-> Num(in1.shape[i])])
         [] g.op = "Gather" ->
              T(<<Len(in2.d)>>, [i \in DOMAIN in2.d |-> in1.d[in2.d[i].n + 1]])
         [] g.op = "Concat" -> T(<<Len(in1.d) + Len(in2.d)>>, in1.d \o in2.d)
         [] g.op = "ConstantOfShape" -> TFill(in1, in2)
         [] g.op = "Transpose" -> TTranspose(in1)
         [] g.op = "MatMul" -> TMatMul(in1, in2)
         [] g.op = "EyeLike" -> TEyeLike(in1)
         [] g.op = "Identity" -> in1
         [] g.op \in {"Add", "Mul", "Div", "Pow"} -> Broadcast2(g.op, in1, in2)
         [] g.op \in {"Neg", "Exp", "Sin"} -> Map1(g.op, in1)
         [] g.op = "ReduceSumSquare" -> TRowSumSquare(in1)
         [] g.op = "ReduceL2" -> Map1("Sqrt", TRowSumSquare(in1))
         [] g.op = "Squeeze" -> T(<<in1.shape[1]>>, in1.d)
         [] g.op = "onnx_cdist" -> TPairwise(in1, in2, g.attr)
         [] g.op = "CDist" -> TPairwise(in1, in2, g.attr)
         [] g.op = "onnx_squareform_pdist" -> TPairwise(in1, in1, g.attr)

Env(x, xt) ==
    [n \in {x.name} \cup (IF IsNone(xt) THEN {} ELSE {Val(xt).name}) |->
       IF n = x.name THEN TensorOf(x) ELSE TensorOf(Val(xt))]

(***************************************************************************)
(* The inputs of the model.                                                *)
(***************************************************************************)
Tensor2(name, isarray, n, m, fill) ==
    [name |-> name, isarray |-> isarray, shape |-> <<n, m>>,
     data |-> [p \in 1..(n * m) |-> p + fill - 1]]

Tensor1(name, n) ==
    [name |-> name, isarray |-> TRUE, shape |-> <<n>>, data |-> [p \in 1..n |-> p]]

Dtypes == {"float32", "float64", "int64"}
Optims == {None, Some("cdist"), Some("other")}
OpVersions == {None, Some(18)}
Nus == {"0.5", "1.5", "2.5", "inf", "3.5"}

DistanceLeaves ==
    {RBF(Scalar(2)), RationalQuadratic(Scalar(1), Scalar(2)),
     ExpSineSquared(Scalar(2), Scalar(1))}
    \cup {Matern(Scalar(2), nu) : nu \in Nus}

DiagLeaves == DistanceLeaves \cup {ConstantKernel(Scalar(2)), DotProduct(Scalar(1))}

Leaves ==
    DiagLeaves
    \cup {PairwiseKernel("cosine"), PairwiseKernel("linear"), WhiteKernel(Scalar(2)),
          RBF(Array(<<1, 2>>)), ExpSineSquared(Array(<<1, 2>>), Scalar(1)),
          DotProduct(Array(<<1, 2>>)),
          Subclass("MyRBF", RBF(Scalar(2))),
          Subclass("MySum", Sum(ConstantKernel(Scalar(2)), ConstantKernel(Scalar(2)))),
          OtherKernel("Exponentiation")}

Companions == {ConstantKernel(Scalar(2))}

PairLeaves ==
    {RBF(Scalar(2)), Matern(Scalar(2), "1.5"), Matern(Scalar(2), "3.5"),
     ExpSineSquared(Scalar(2), Scalar(1)), DotProduct(Scalar(1)),
     PairwiseKernel("linear"), WhiteKernel(Scalar(2)), OtherKernel("Exponentiation")}

Pairs ==
    {Sum(a, b) : a \in PairLeaves, b \in PairLeaves}
    \cup {Product(a, b) : a \in PairLeaves, b \in PairLeaves}

Grow(S, C) ==
    S \cup {Sum(a, c) : a \in S, c \in C} \cup {Sum(c, a) : a \in S, c \in C}
      \cup {Product(a, c) : a \in S, c \in C} \cup {Product(c, a) : a \in S, c \in C}

RECURSIVE Trees(_, _, _)
Trees(S, C, d) == IF d = 0 THEN S ELSE Grow(Trees(S, C, d - 1), C)

(***************************************************************************)
(* Init: every argument of the calls is chosen; no call has been made.     *)
(* The argument tuples come in three families: the kernel trees on one     *)
(* pair of point sets, the kernels with a closed-form value on point sets  *)
(* of every shape, and the dot product on operands of rank 1 and 2.        *)
(***************************************************************************)
InitTrees ==
    /\ kernel \in Trees(Leaves, Companions, MaxDepth) \cup Pairs
    /\ X = Tensor2("X", FALSE, MaxRows, MaxCols, 0)
    /\ x_train \in {None, Some(X), Some(Tensor2("x_train", TRUE, 1, MaxCols, 1))}
    /\ dtype \in Dtypes
    /\ optim \in Optims
    /\ op_version \in OpVersions

InitShapes ==
    /\ kernel \in Trees(DiagLeaves, {}, 0) \cup {WhiteKernel(Scalar(2))}
                    \cup {Sum(DotProduct(Scalar(1)), ConstantKernel(Scalar(2))),
                          Product(RBF(Scalar(2)), DotProduct(Scalar(1)))}
    /\ X \in {Tensor2("X", a, n, m, f) :
                a \in BOOLEAN, n \in 1..MaxRows, m \in 1..MaxCols, f \in {0, 1}}
    /\ x_train \in {None, Some(X)}
                   \cup {Some(Tensor2("x_train", TRUE, n, X.shape[2], 1)) : n \in 1..MaxRows}
    /\ dtype \in FloatDtypes
    /\ optim \in Optims
    /\ op_version = Some(18)

InitRanks ==
    /\ kernel \in {DotProduct(Scalar(1)), PairwiseKernel("cosine"),
                    Sum(DotProduct(Scalar(1)), ConstantKernel(Scalar(2)))}
    /\ X \in {Tensor1("X", MaxCols), Tensor2("X", FALSE, MaxRows, MaxCols, 0)}
    /\ x_train \in {None, Some(Tensor1("x_train", MaxCols)),
                    Some(Tensor2("x_train", TRUE, 1, MaxCols, 1))}
    /\ dtype \in FloatDtypes
    /\ optim = None
    /\ op_version \in OpVersions

Init ==
    /\ InitTrees \/ InitShapes \/ InitRanks
    /\ output_names = Some(<<"Y">>)
    /\ axis = 0
    /\ keepdims = None
    /\ resK = Pending
    /\ resD = Pending
    /\ resZ = Pending

(***************************************************************************)
(* The calls.                                                              *)
(***************************************************************************)
CallConvertKernel ==
    /\ resK = Pending
    /\ resK' = convert_kernel(kernel, X, output_names, x_train, dtype, optim, op_version)
    /\ UNCHANGED <<kernel, X, x_train, output_names, dtype, optim, op_version,
                   axis, keepdims, resD, resZ>>

CallConvertKernelDiag ==
    /\ resD = Pending
    /\ resD' = convert_kernel_diag(kernel, X, output_names, dtype, optim, op_version)
    /\ UNCHANGED <<kernel, X, x_train, output_names, dtype, optim, op_version,
                   axis, keepdims, resK, resZ>>

Next == CallConvertKernel \/ CallConvertKernelDiag

Spec == Init /\ [][Next]_vars

(***************************************************************************)
(* The calls of _zero_vector_of_size on their own.                         *)
(***************************************************************************)
InitZ ==
    /\ kernel = ConstantKernel(Scalar(2))
    /\ X \in {Tensor2("X", a, n, m, f) :
                a \in BOOLEAN, n \in 1..MaxRows, m \in 1..MaxCols, f \in {0, 1}}
    /\ x_train = None
    /\ output_names \in {None, Some(<<"Y">>)}
    /\ dtype \in Dtypes
    /\ optim = None
    /\ op_version \in OpVersions
    /\ axis \in {0, 1}
    /\ keepdims \in {None, Some(0), Some(1)}
    /\ resK = Pending
    /\ resD = Pending
    /\ resZ = Pending

CallZeroVectorOfSize ==
    /\ resZ = Pending
    /\ resZ' = zero_vector_of_size(X, output_names, axis, keepdims, dtype, op_version)
    /\ UNCHANGED <<kernel, X, x_train, output_names, dtype, optim, op_version,
                   axis, keepdims, resK, resD>>

NextZ == CallZeroVectorOfSize

SpecZ == InitZ /\ [][NextZ]_vars

(***************************************************************************)
(* Vocabulary of the properties.                                           *)
(***************************************************************************)
Composite(k) == k.cls \in {"Sum", "Product"}

RECURSIVE Depth(_)
Depth(k) == IF Composite(k) THEN 1 + Max(Depth(k.k1), Depth(k.k2)) ELSE 0

RECURSIVE Nodes(_)
Nodes(g) == {g} \cup UNION {Nodes(g.ins[i]) : i \in DOMAIN g.ins}

SupportedNus == {"0.5", "1.5", "2.5", "inf"}
SupportedClasses ==
    {"Sum", "Product", "ConstantKernel", "RBF", "Matern", "RationalQuadratic",
     "ExpSineSquared", "DotProduct", "PairwiseKernel", "WhiteKernel"}

RECURSIVE HasUnsupported(_)
HasUnsupported(k) ==
    \/ k.cls \notin SupportedClasses
    \/ k.cls = "Matern" /\ k.nu \notin SupportedNus
    \/ k.cls = "PairwiseKernel" /\ k.metric # "cosine"
    \/ Composite(k) /\ (HasUnsupported(k.k1) \/ HasUnsupported(k.k2))

RECURSIVE HasDistanceKernel(_)
HasDistanceKernel(k) ==
    \/ k.cls \in {"RBF", "Matern", "RationalQuadratic", "ExpSineSquared"}
    \/ Composite(k) /\ (HasDistanceKernel(k.k1) \/ HasDistanceKernel(k.k2))

RECURSIVE OnlyClasses(_, _)
OnlyClasses(k, S) ==
    /\ k.cls \in S
    /\ Composite(k) => OnlyClasses(k.k1, S) /\ OnlyClasses(k.k2, S)

RECURSIVE ScalarParams(_)
ScalarParams(k) ==
    IF Composite(k) THEN ScalarParams(k.k1) /\ ScalarParams(k.k2)
    ELSE /\ k.cls \in {"RBF", "Matern", "RationalQuadratic", "ExpSineSquared"}
            => ~k.length_scale.isarray
         /\ k.cls = "DotProduct" => ~k.sigma_0.isarray

DoneK == resK # Pending
DoneD == resD # Pending
DoneZ == resZ # Pending

Zeros(shape) == T(shape, [p \in 1..(IF Len(shape) = 2 THEN shape[1] * shape[2]
                                     ELSE shape[1]) |-> Num(0)])

Diagonal(t) == T(<<t.shape[1]>>, [i \in 1..t.shape[1] |-> At2(t, i, i)])

(***************************************************************************)
(* C2.  The graph of a Sum is the Add node, and the graph of a Product the *)
(* Mul node, of the graphs of its two children, and at every depth of the  *)
(* tree each child graph is the one convert_kernel (convert_kernel_diag)   *)
(* returns for that child on the X, x_train, dtype, optim and op_version   *)
(* of the outermost call; the call succeeds exactly when both child calls  *)
(* do.                                                                     *)
(***************************************************************************)
RECURSIVE ComposedK(_, _)
ComposedK(k, g) ==
    IF Composite(k)
    THEN /\ g.op = (IF k.cls = "Sum" THEN "Add" ELSE "Mul")
         /\ Len(g.ins) = 2
         /\ g.ver = op_version
         /\ ComposedK(k.k1, g.ins[1])
         /\ ComposedK(k.k2, g.ins[2])
    ELSE g = convert_kernel(k, X, None, x_train, dtype, optim, op_version).g

RECURSIVE ComposedD(_, _)
ComposedD(k, g) ==
    IF Composite(k)
    THEN /\ g.op = (IF k.cls = "Sum" THEN "Add" ELSE "Mul")
         /\ Len(g.ins) = 2
         /\ g.ver = op_version
         /\ ComposedD(k.k1, g.ins[1])
         /\ ComposedD(k.k2, g.ins[2])
    ELSE g = convert_kernel_diag(k, X, None, dtype, optim, op_version).g

C2_SumProductCompose ==
    Composite(kernel) =>
      /\ DoneK =>
           /\ resK.ok <=>
                /\ convert_kernel(kernel.k1, X, None, x_train, dtype, optim, op_version).ok
                /\ convert_kernel(kernel.k2, X, None, x_train, dtype, optim, op_version).ok
           /\ resK.ok => ComposedK(kernel, resK.g)
      /\ DoneD =>
           /\ resD.ok <=>
                /\ convert_kernel_diag(kernel.k1, X, None, dtype, optim, op_version).ok
                /\ convert_kernel_diag(kernel.k2, X, None, dtype, optim, op_version).ok
           /\ resD.ok => ComposedD(kernel, resD.g)

C2_Witness ==
    /\ kernel.cls = "Product"
    /\ Depth(kernel) >= 2
    /\ ~IsNone(x_train)
    /\ optim = Some("cdist")
    /\ DoneK /\ resK.ok
    /\ DoneD /\ resD.ok

(***************************************************************************)
(* C3.  With op_version=None both convert_kernel and convert_kernel_diag   *)
(* raise, for every kernel and input, with no operator node constructed    *)
(* and no graph returned.                                                  *)
(***************************************************************************)
C3_NoOpVersionFails ==
    IsNone(op_version) =>
      /\ DoneK => ~resK.ok /\ resK.err = "RuntimeError" /\ ~resK.emitted
                  /\ resK.g = NoGraph
      /\ DoneD => ~resD.ok /\ resD.err = "RuntimeError" /\ ~resD.emitted
                  /\ resD.g = NoGraph

C3_Witness ==
    /\ IsNone(op_version)
    /\ ~HasUnsupported(kernel)
    /\ Composite(kernel)
    /\ DoneK /\ ~resK.ok
    /\ DoneD /\ ~resD.ok

(***************************************************************************)
(* C4.  A kernel tree that holds an unsupported construct at any depth (a  *)
(* class that is none of the ten supported ones, a subclass of a supported *)
(* one included; a Matern with nu outside 0.5, 1.5, 2.5, inf; a            *)
(* PairwiseKernel whose metric is not cosine) makes convert_kernel raise:  *)
(* no graph is returned.                                                   *)
(***************************************************************************)
C4_UnsupportedFails ==
    (DoneK /\ HasUnsupported(kernel)) => ~resK.ok /\ resK.g = NoGraph

C4_Witness ==
    /\ Composite(kernel)
    /\ Depth(kernel) >= 2
    /\ HasUnsupported(kernel.k2)
    /\ ~HasUnsupported(kernel.k1)
    /\ ~IsNone(op_version)
    /\ IsNone(optim)
    /\ dtype \in FloatDtypes
    /\ DoneK /\ ~resK.ok

(***************************************************************************)
(* C5.  With an optim other than None and "cdist", convert_kernel raises   *)
(* for every tree that holds a distance-based kernel, x_train given or     *)
(* not.                                                                    *)
(***************************************************************************)
C5_UnknownOptimFails ==
    (/\ DoneK
     /\ ~IsNone(optim) /\ Val(optim) # "cdist"
     /\ HasDistanceKernel(kernel))
    => ~resK.ok /\ resK.g = NoGraph

(***************************************************************************)
(* C6.  The distance nodes of the graph built under optim="cdist" carry    *)
(* the metrics of the distance nodes of the graph built under optim=None   *)
(* for the same kernel and inputs.                                         *)
(***************************************************************************)
DistanceOps == {"onnx_cdist", "onnx_squareform_pdist", "CDist"}

RECURSIVE Metrics(_)
RECURSIVE MetricsFrom(_, _)
Metrics(g) == IF g.op \in DistanceOps THEN <<g.attr>> ELSE MetricsFrom(g, 1)
MetricsFrom(g, i) ==
    IF i > Len(g.ins) THEN <<>> ELSE Metrics(g.ins[i]) \o MetricsFrom(g, i + 1)

C6_SameMetricUnderCdist ==
    (DoneK /\ resK.ok /\ optim = Some("cdist")) =>
      LET plain == convert_kernel(kernel, X, output_names, x_train, dtype, None,
                                  op_version)
      IN plain.ok /\ Metrics(resK.g) = Metrics(plain.g)

(***************************************************************************)
(* C7.  In a call with dtype float32 or float64 every floating constant of *)
(* the returned graph has that dtype.  (The index constants of             *)
(* _zero_vector_of_size are int64 by construction.)                        *)
(***************************************************************************)
FloatingConstants(g) ==
    {n \in Nodes(g) : n.op \in {"Const", "HostArray"} /\ n.dtype # "int64"}

C7_ConstantsHaveDtype ==
    dtype \in FloatDtypes =>
      /\ (DoneK /\ resK.ok) => \A n \in FloatingConstants(resK.g) : n.dtype = dtype
      /\ (DoneD /\ resD.ok) => \A n \in FloatingConstants(resD.g) : n.dtype = dtype

(***************************************************************************)
(* C1.  For a tree of Sum, Product, ConstantKernel, RBF, ExpSineSquared,   *)
(* RationalQuadratic, Matern and DotProduct with number parameters, a 2-D  *)
(* X, a float dtype, an op_version and an optim of None or "cdist":        *)
(* convert_kernel_diag(kernel, X) succeeds, convert_kernel(kernel, X,      *)
(* x_train=X) succeeds for the same dtype, op_version and optim, and the   *)
(* vector of the first is the diagonal of the matrix of the second.        *)
(***************************************************************************)
DiagClasses ==
    {"Sum", "Product", "ConstantKernel", "RBF", "ExpSineSquared",
     "RationalQuadratic", "Matern", "DotProduct"}

C1_DiagIsDiagonal ==
    (/\ OnlyClasses(kernel, DiagClasses) /\ ScalarParams(kernel)
     /\ Len(X.shape) = 2
     /\ x_train = Some(X)
     /\ dtype \in FloatDtypes
     /\ ~IsNone(op_version)
     /\ optim \in {None, Some("cdist")}
     /\ DoneK /\ DoneD)
    => /\ resD.ok
       /\ resK.ok
       /\ Eval(resD.g, Env(X, None)) = Diagonal(Eval(resK.g, Env(X, x_train)))

(***************************************************************************)
(* C8.  convert_kernel on WhiteKernel(noise_level) with an op_version and  *)
(* 2-D point sets returns a graph whose value is noise_level times the     *)
(* identity of size n_X when x_train is None, and the zero matrix of shape *)
(* [n_X, n_train] when x_train is given: a function of the row counts.     *)
(***************************************************************************)
ScaledIdentity(n, c) ==
    T(<<n, n>>, [p \in 1..(n * n) |-> IF (p - 1) \div n = (p - 1) % n THEN c ELSE Num(0)])

C8_WhiteKernelValue ==
    (/\ kernel.cls = "WhiteKernel"
     /\ ~IsNone(op_version)
     /\ Len(X.shape) = 2
     /\ DoneK)
    => /\ resK.ok
       /\ Eval(resK.g, Env(X, x_train)) =
            IF IsNone(x_train)
            THEN ScaledIdentity(X.shape[1], kernel.noise_level.v[1])
            ELSE Zeros(<<X.shape[1], Val(x_train).shape[1]>>)

C8_Witness ==
    /\ kernel.cls = "WhiteKernel"
    /\ ~IsNone(x_train)
    /\ Val(x_train).shape[1] # X.shape[1]
    /\ X.shape[1] >= 2
    /\ X.data[1] # 0
    /\ DoneK /\ resK.ok

(***************************************************************************)
(* C9.  With an op_version and a keepdims, _zero_vector_of_size returns a  *)
(* graph whose value is all zeros, of length n_rows for axis=0 and n_cols  *)
(* otherwise: a flat vector when keepdims is 0; when keepdims is set, of   *)
(* shape [n_rows, 1] for axis=0 and of shape [1, n_cols] for axis=1.       *)
(***************************************************************************)
C9_ZeroVectorShape ==
    (DoneZ /\ ~IsNone(op_version) /\ ~IsNone(keepdims)) =>
      /\ resZ.ok
      /\ Eval(resZ.g, Env(X, None)) =
           Zeros(IF axis = 0
                 THEN IF Val(keepdims) # 0 THEN <<X.shape[1], 1>> ELSE <<X.shape[1]>>
                 ELSE IF Val(keepdims) # 0 THEN <<1, X.shape[2]>> ELSE <<X.shape[2]>>)

(* C9 as stated: with keepdims set the length comes first and a dimension  *)
(* of size 1 follows, for both axes.                                       *)
C9_TrailingOneBothAxes ==
    (DoneZ /\ ~IsNone(op_version) /\ ~IsNone(keepdims)) =>
      /\ resZ.ok
      /\ Eval(resZ.g, Env(X, None)) =
           Zeros(IF Val(keepdims) # 0
                 THEN <<X.shape[IF axis = 0 THEN 1 ELSE 2], 1>>
                 ELSE <<X.shape[IF axis = 0 THEN 1 ELSE 2]>>)

C9_Witness ==
    /\ axis = 1
    /\ keepdims = Some(1)
    /\ X.shape[2] >= 2
    /\ X.shape[1] # X.shape[2]
    /\ DoneZ /\ resZ.ok

(***************************************************************************)
(* C10.  convert_kernel on a DotProduct raises, with no operator node      *)
(* constructed, whenever X or the second operand (x_train when given, X    *)
(* otherwise) is not 2-D.                                                  *)
(***************************************************************************)
C10_DotProductNeeds2D ==
    (/\ kernel.cls = "DotProduct"
     /\ DoneK
     /\ \/ Len(X.shape) # 2
        \/ ~IsNone(x_train) /\ Len(Val(x_train).shape) # 2)
    => ~resK.ok /\ ~resK.emitted /\ resK.g = NoGraph

(***************************************************************************)
(* C11.  Whenever convert_kernel or convert_kernel_diag succeeds with      *)
(* caller-supplied output_names, the root node of the returned graph       *)
(* carries those names and it is the only node of the graph that does: no  *)
(* node emitted for a child of a Sum/Product and no intermediate node of a *)
(* formula carries them.                                                   *)
(***************************************************************************)
RECURSIVE SumUpToInt(_, _)
SumUpToInt(f, n) == IF n = 0 THEN 0 ELSE f[n] + SumUpToInt(f, n - 1)

RECURSIVE Named(_, _)
Named(g, names) ==
    LET below == [i \in DOMAIN g.ins |-> Named(g.ins[i], names)]
    IN (IF g.names = names THEN 1 ELSE 0) + SumUpToInt(below, Len(g.ins))

NamesOnlyOnRoot(r) ==
    r.ok => /\ r.g.names = output_names
            /\ Named(r.g, output_names) = 1

C11_NamesOnlyOnRoot ==
    ~IsNone(output_names) =>
      /\ DoneK => NamesOnlyOnRoot(resK)
      /\ DoneD => NamesOnlyOnRoot(resD)

C11_Witness ==
    /\ ~IsNone(output_names)
    /\ Composite(kernel) /\ Depth(kernel) >= 2
    /\ \E n \in Nodes(resK.g) : n.op = "MatMul"
    /\ DoneK /\ resK.ok /\ Named(resK.g, output_names) = 1
    /\ DoneD /\ resD.ok /\ Named(resD.g, output_names) = 1

====
